---- MODULE Spec2Model ----
(***************************************************************************)
(* cidercellar/scan.py: the Debian repository builder (DebianTree), the    *)
(* Release manifest it rewrites, the Packages artifacts it writes, and     *)
(* extract_packages.                                                       *)
(*                                                                         *)
(* Strings whose characters matter (package names, versions,               *)
(* architectures, tree keys) are sequences of one-character strings, so    *)
(* that f"{version}/{arch}", str.count, str.partition and str.startswith   *)
(* are computed, not assumed.                                              *)
(***************************************************************************)
EXTENDS Integers, Sequences, FiniteSets, TLC

(***************************************************************************)
(* Bounds of the model.                                                    *)
(***************************************************************************)
MaxDebs == 2
MaxBuilds == 2
MaxTime == 1
MaxChanges == 1

(***************************************************************************)
(* Characters and str helpers.                                             *)
(***************************************************************************)
Digits == {"0", "1", "2"}
Letters == {"a", "b"}

\* ord(c) for the characters the model uses (ASCII code points).
Ord(c) ==
  CASE c = "-" -> 45 [] c = "." -> 46 [] c = "/" -> 47 [] c = "0" -> 48 [] c = "1" -> 49
    [] c = "2" -> 50 [] c = ":" -> 58 [] c = "a" -> 97 [] c = "b" -> 98
    [] c = "~" -> 126

DigitVal(c) == Ord(c) - Ord("0")

\* str.__lt__ on two strings: lexicographic by code point.
RECURSIVE StrLess(_, _)
StrLess(s, t) ==
  IF t = <<>> THEN FALSE
  ELSE IF s = <<>> THEN TRUE
  ELSE IF Head(s) # Head(t) THEN Ord(Head(s)) < Ord(Head(t))
  ELSE StrLess(Tail(s), Tail(t))

\* str.count(c)
Count(s, c) == Cardinality({i \in DOMAIN s : s[i] = c})

\* index of the first / last occurrence of c in s, 0 when absent
FirstIndex(s, c) ==
  IF \E i \in DOMAIN s : s[i] = c
  THEN CHOOSE i \in DOMAIN s : s[i] = c /\ \A j \in 1..(i - 1) : s[j] # c
  ELSE 0

LastIndex(s, c) ==
  IF \E i \in DOMAIN s : s[i] = c
  THEN CHOOSE i \in DOMAIN s : s[i] = c /\ \A j \in (i + 1)..Len(s) : s[j] # c
  ELSE 0

\* str.partition(c)[0]: the part before the first c, the whole string if none
PartitionHead(s, c) ==
  IF FirstIndex(s, c) = 0 THEN s ELSE SubSeq(s, 1, FirstIndex(s, c) - 1)

\* str.startswith
StartsWith(s, p) == Len(p) <= Len(s) /\ SubSeq(s, 1, Len(p)) = p

(***************************************************************************)
(* pydpkg.Dpkg.compare_versions: [epoch:]upstream[-revision].              *)
(***************************************************************************)
\* length of the leading run of s whose characters are (not) digits
RECURSIVE RunLen(_, _)
RunLen(s, digit) ==
  IF s = <<>> \/ ((Head(s) \in Digits) # digit) THEN 0
  ELSE 1 + RunLen(Tail(s), digit)

Drop(s, n) == SubSeq(s, n + 1, Len(s))
Take(s, n) == SubSeq(s, 1, n)

RECURSIVE IntOf(_)
IntOf(s) == IF s = <<>> THEN 0 ELSE 10 * IntOf(Take(s, Len(s) - 1)) + DigitVal(s[Len(s)])

Sign(n) == IF n < 0 THEN -1 ELSE IF n > 0 THEN 1 ELSE 0

\* rank of one character of a non-digit run; 0 is the end of the run
CharRank(c) ==
  IF c = "~" THEN -1
  ELSE IF c \in Letters THEN 1000 + Ord(c)
  ELSE Ord(c)

RECURSIVE NonDigitCmp(_, _)
NonDigitCmp(x, y) ==
  IF x = <<>> /\ y = <<>> THEN 0
  ELSE LET rx == IF x = <<>> THEN 0 ELSE CharRank(Head(x))
           ry == IF y = <<>> THEN 0 ELSE CharRank(Head(y))
       IN IF rx # ry THEN Sign(rx - ry)
          ELSE NonDigitCmp(Tail(x), Tail(y))

\* the first difference decides
ThenCmp(c1, c2) == IF c1 # 0 THEN c1 ELSE c2

\* alternating runs: a non-digit run (possibly empty), then a digit run
\* compared as integers, until both segments are consumed
RECURSIVE SegmentCmp(_, _)
DigitRuns(s, t, ds, dt) ==
  ThenCmp(Sign(IntOf(Take(s, ds)) - IntOf(Take(t, dt))), SegmentCmp(Drop(s, ds), Drop(t, dt)))

AfterNonDigits(s, t) == DigitRuns(s, t, RunLen(s, TRUE), RunLen(t, TRUE))

NonDigitRuns(s, t, ns, nt) ==
  ThenCmp(NonDigitCmp(Take(s, ns), Take(t, nt)), AfterNonDigits(Drop(s, ns), Drop(t, nt)))

SegmentCmp(s, t) ==
  IF s = <<>> /\ t = <<>> THEN 0
  ELSE NonDigitRuns(s, t, RunLen(s, FALSE), RunLen(t, FALSE))

Epoch(v) == IF FirstIndex(v, ":") = 0 THEN 0 ELSE IntOf(Take(v, FirstIndex(v, ":") - 1))
NoEpoch(v) == Drop(v, FirstIndex(v, ":"))
BeforeLast(r, i) == IF i = 0 THEN r ELSE Take(r, i - 1)
AfterLast(r, i) == IF i = 0 THEN <<>> ELSE Drop(r, i)
Upstream(v) == BeforeLast(NoEpoch(v), LastIndex(NoEpoch(v), "-"))
Revision(v) == AfterLast(NoEpoch(v), LastIndex(NoEpoch(v), "-"))

compare_versions(a, b) ==
  ThenCmp(Sign(Epoch(a) - Epoch(b)),
          ThenCmp(SegmentCmp(Upstream(a), Upstream(b)),
                  SegmentCmp(Revision(a), Revision(b))))

\* scan.py _compare_versions: on tree keys "version/arch"
_compare_versions(k1, k2) ==
  LET v1 == IF Count(k1, "/") = 1 THEN PartitionHead(k1, "/") ELSE k1
      v2 == IF Count(k2, "/") = 1 THEN PartitionHead(k2, "/") ELSE k2
  IN compare_versions(v1, v2)

(***************************************************************************)
(* The archive files that may lie in deb_path.  `has` is the set of the    *)
(* required control fields the archive's control file holds.               *)
(***************************************************************************)
Required == {"Package", "Version", "Architecture"}

Deb(f, r, h, p, v, a) ==
  [file |-> f, readable |-> r, has |-> h, Package |-> p, Version |-> v, Architecture |-> a]

Archives ==
  << Deb("f1", TRUE, Required, <<"a">>, <<"1">>, <<"a">>),
     Deb("f2", TRUE, Required, <<"a">>, <<"2">>, <<"a">>),
     Deb("f3", TRUE, Required, <<"a">>, <<"2", "~">>, <<"a">>),
     Deb("f4", TRUE, Required, <<"a">>, <<"2">>, <<"b">>),
     Deb("f5", TRUE, Required, <<"a">>, <<"1", "/", "1">>, <<"a">>),
     Deb("f6", TRUE, Required, <<"a">>, <<"1">>, <<"1", "/", "a">>),
     Deb("f7", TRUE, Required, <<"b">>, <<"1">>, <<"a">>),
     Deb("f8", TRUE, Required, <<"a">>, <<"1">>, <<"a">>),
     Deb("f9", TRUE, Required, <<"a">>, <<"1", ".">>, <<"a">>),
     Deb("f10", TRUE, {"Package", "Architecture"}, <<"b">>, <<>>, <<"b">>),
     Deb("f11", FALSE, {}, <<>>, <<>>, <<>>) >>

DebIds == DOMAIN Archives

\* the architecture filters a builder may be constructed with; None is "all"
None == <<>>
ArchFilters == {None, <<"a">>}

(***************************************************************************)
(* pydpkg.Dpkg: reading an archive's control file fails when the file is   *)
(* unreadable or lacks a required header.  The read happens at the first   *)
(* field access, which find_debs/_add_deb perform for every archive.       *)
(***************************************************************************)
DpkgReadable(d) == Archives[d].readable /\ Required \subseteq Archives[d].has

(***************************************************************************)
(* DebianTree._tree: dict name -> dict "version/arch" -> debinfo.  Kept as *)
(* the sequence of its (name, key, deb) entries in insertion order; an     *)
(* assignment to an existing key keeps the key's position, as a dict does. *)
(* popped records whether build has already run fileinfo.pop("filesize")   *)
(* on this debinfo object; find_debs makes a new object for every file.    *)
(***************************************************************************)
TreeKey(version, arch) == version \o <<"/">> \o arch

_add_deb(tree, d) ==
  LET name == Archives[d].Package
      key == TreeKey(Archives[d].Version, Archives[d].Architecture)
      e == [name |-> name, key |-> key, deb |-> d, popped |-> FALSE]
  IN IF \E i \in DOMAIN tree : tree[i].name = name /\ tree[i].key = key
     THEN [i \in DOMAIN tree |->
             IF tree[i].name = name /\ tree[i].key = key THEN e ELSE tree[i]]
     ELSE Append(tree, e)

\* (faulty variant: an archive that cannot be read is skipped)
RECURSIVE find_debs_skipping(_, _, _)
find_debs_skipping(tree, order, arch) ==
  IF order = <<>> THEN [ok |-> TRUE, tree |-> tree]
  ELSE LET d == Head(order) IN
       IF ~DpkgReadable(d) \/ (arch # None /\ Archives[d].Architecture # arch)
       THEN find_debs_skipping(tree, Tail(order), arch)
       ELSE find_debs_skipping(_add_deb(tree, d), Tail(order), arch)

\* find_debs over the archives in glob order `order`; an exception leaves
\* the entries added before it in the tree.
RECURSIVE find_debs(_, _, _)
find_debs(tree, order, arch) ==
  IF order = <<>> THEN [ok |-> TRUE, tree |-> tree]
  ELSE LET d == Head(order) IN
       IF ~DpkgReadable(d) THEN [ok |-> FALSE, tree |-> tree]
       ELSE IF arch # None /\ Archives[d].Architecture # arch
            THEN find_debs(tree, Tail(order), arch)
            ELSE find_debs(_add_deb(tree, d), Tail(order), arch)

\* the orders in which glob may yield the files of a set
Orders(S) ==
  {o \in [1..Cardinality(S) -> S] : \A i, j \in 1..Cardinality(S) : o[i] = o[j] => i = j}

(***************************************************************************)
(* DebianTree._build: sorted(keys, cmp_to_key(_compare_versions)),         *)
(* reversed, then the multiversion filter.                                 *)
(***************************************************************************)
\* insertion of e into an ascending list, after the elements not greater
\* (a stable sort; for a comparator that is a total preorder on the keys
\* present, every stable sort gives this one result)
InsertAt(sorted, e, pos) ==
  SubSeq(sorted, 1, pos - 1) \o <<e>> \o SubSeq(sorted, pos, Len(sorted))

FirstOrEnd(later, end) ==
  IF later = {} THEN end ELSE CHOOSE i \in later : \A j \in later : i <= j

InsertEntry(sorted, e) ==
  InsertAt(sorted, e,
           FirstOrEnd({i \in DOMAIN sorted : _compare_versions(e.key, sorted[i].key) < 0},
                      Len(sorted) + 1))

RECURSIVE SortedEntries(_)
SortedEntries(es) ==
  IF es = <<>> THEN <<>>
  ELSE InsertEntry(SortedEntries(SubSeq(es, 1, Len(es) - 1)), es[Len(es)])

Reverse(s) == [i \in DOMAIN s |-> s[Len(s) + 1 - i]]

\* "if not self._multiversion": the keys that start with the version part
\* of the first key
Selected(version_names, multiversion) ==
  IF ~multiversion
  THEN SelectSeq(version_names,
                 LAMBDA e : StartsWith(e.key, PartitionHead(version_names[1].key, "/")))
  ELSE version_names

_build(tree, package, multiversion) ==
  Selected(Reverse(SortedEntries(SelectSeq(tree, LAMBDA e : e.name = package))), multiversion)

\* sorted(self._tree): the package names in ascending str order
RECURSIVE SortedNames(_)
SortedNames(S) ==
  IF S = {} THEN <<>>
  ELSE LET m == CHOOSE n \in S : \A o \in S \ {n} : StrLess(n, o)
       IN <<m>> \o SortedNames(S \ {m})

\* str(msg) of one entry: the control fields, then Filename (Size and the
\* archive's digests are functions of the file)
Paragraph(e) ==
  [Package |-> Archives[e.deb].Package, Version |-> Archives[e.deb].Version,
   Architecture |-> Archives[e.deb].Architecture, Filename |-> Archives[e.deb].file]

AllParagraphs(es) == [i \in DOMAIN es |-> Paragraph(es[i])]

RECURSIVE Paragraphs(_, _, _)
Paragraphs(tree, names, multiversion) ==
  IF names = <<>> THEN <<>>
  ELSE AllParagraphs(_build(tree, Head(names), multiversion))
       \o Paragraphs(tree, Tail(names), multiversion)

packages_text(tree, multiversion) ==
  Paragraphs(tree, SortedNames({tree[i].name : i \in DOMAIN tree}), multiversion)

\* the debinfo objects the loops of build visit, in the order of the visits
RECURSIVE Visited(_, _, _)
Visited(tree, names, multiversion) ==
  IF names = <<>> THEN <<>>
  ELSE _build(tree, Head(names), multiversion) \o Visited(tree, Tail(names), multiversion)

debinfos(tree, multiversion) ==
  Visited(tree, SortedNames({tree[i].name : i \in DOMAIN tree}), multiversion)

\* fileinfo.pop("filesize") on each of the objects es: the tree holds the
\* same objects
Pop(tree, es) ==
  [i \in DOMAIN tree |->
     IF \E j \in DOMAIN es : es[j].name = tree[i].name /\ es[j].key = tree[i].key
     THEN [tree[i] EXCEPT !.popped = TRUE]
     ELSE tree[i]]

(***************************************************************************)
(* Module constants of scan.py and the pydpkg hash table.                  *)
(***************************************************************************)
GZIP == ".gz"
BZIP2 == ".bz2"
XZ == ".xz"
PACKAGES_COMPRESSION == (GZIP :> "gzip") @@ (BZIP2 :> "bz2") @@ (XZ :> "lzma")
\* dict order of PACKAGES_COMPRESSION
CompressionOrder == <<GZIP, BZIP2, XZ>>

\* the keys of pydpkg.HASHES, the hashlib names, in dict order
HASHES == <<"md5", "sha1", "sha256", "sha512">>

\* str.upper / str.lower on the field names the model uses
Upper(n) ==
  CASE n \in {"md5", "MD5"} -> "MD5" [] n \in {"sha1", "SHA1"} -> "SHA1"
    [] n \in {"sha256", "SHA256"} -> "SHA256" [] n \in {"sha512", "SHA512"} -> "SHA512"
    [] n = "MD5Sum" -> "MD5SUM" [] n = "Origin" -> "ORIGIN"

Lower(n) ==
  CASE n \in {"md5", "MD5"} -> "md5" [] n \in {"sha1", "SHA1"} -> "sha1"
    [] n \in {"sha256", "SHA256"} -> "sha256" [] n \in {"sha512", "SHA512"} -> "sha512"
    [] n = "MD5Sum" -> "md5sum" [] n = "Origin" -> "origin"

_actual(name) == IF Upper(name) = "MD5" THEN Upper(name) \o "Sum" ELSE Upper(name)

\* the four digest-kind field names of the manifest, in HASHES order
DigestFields == [i \in DOMAIN HASHES |-> _actual(HASHES[i])]

(***************************************************************************)
(* Files.  A path is its stem and suffix; a compressed artifact is the     *)
(* codec, the text and, for gzip, the mtime its header carries.  A digest  *)
(* line "<digest> <size> <name>" is kept as the hash name, the content the *)
(* digest and the size were taken of, and the path's name.                 *)
(***************************************************************************)
Path(stem, suffix) == [stem |-> stem, suffix |-> suffix]

\* pathlib with_suffix: the last suffix is replaced
with_suffix(path, ext) == Path(path.stem, ext)

\* compression.open(path, "wt").write(text): gzip.GzipFile stamps the
\* current time into the header; bz2 and lzma streams carry none
Compress(format, text, t) ==
  [codec |-> PACKAGES_COMPRESSION[format], text |-> text,
   mtime |-> IF PACKAGES_COMPRESSION[format] = "gzip" THEN t ELSE 0]

\* (faulty variant: the line names the path's stem instead of its name)
EntryStem(hash, content, path) == [hash |-> hash, of |-> content, file |-> Path(path.stem, "")]

\* f"{digest} {packages_path.stat().st_size} {packages_path.name}"
Entry(hash, content, path) == [hash |-> hash, of |-> content, file |-> path]

(***************************************************************************)
(* The Release file as text lines, and email.message.Message.              *)
(*   hdr : "Name: v"        dig : a digest line, v = " " when indented     *)
(*   blank : ""                                                            *)
(***************************************************************************)
HdrLine(name, v) == [t |-> "hdr", name |-> name, v |-> v, e |-> <<>>]
DigLine(indent, e) == [t |-> "dig", name |-> "", v |-> indent, e |-> <<e>>]
BlankLine == [t |-> "blank", name |-> "", v |-> "", e |-> <<>>]

\* a header value: a str (its first line and the lines after each "\n"),
\* or the Python list [] that __init__ assigns
StrValue(first, rest) == [isStr |-> TRUE, first |-> first, rest |-> rest]
ListValue == [isStr |-> FALSE, first |-> "", rest |-> <<>>]
Header(name, val) == [name |-> name, val |-> val]
Message(headers, body) == [headers |-> headers, body |-> body]

\* email.message_from_file: header lines, each with its indented
\* continuation lines; the headers end at a blank line (dropped) or at the
\* first line that is neither a header nor a continuation (kept); the rest
\* is the payload.
RECURSIVE ParseLines(_, _)
ParseLines(headers, lines) ==
  IF lines = <<>> THEN Message(headers, <<>>)
  ELSE LET l == Head(lines) IN
       IF l.t = "hdr"
       THEN ParseLines(Append(headers, Header(l.name, StrValue(l.v, <<>>))), Tail(lines))
       ELSE IF l.t = "dig" /\ l.v = " " /\ headers # <<>>
       THEN LET h == headers[Len(headers)]
            IN ParseLines([headers EXCEPT ![Len(headers)] =
                             Header(h.name, StrValue(h.val.first, Append(h.val.rest, l)))],
                          Tail(lines))
       ELSE IF l.t = "blank" THEN Message(headers, Tail(lines))
       ELSE Message(headers, lines)

message_from_file(file) == ParseLines(<<>>, file)

\* `name in msg`: header names match without regard to case
Contains(msg, name) == \E i \in DOMAIN msg.headers : Lower(msg.headers[i].name) = Lower(name)

\* msg[name] = val: Message.__setitem__ appends a header, it replaces none
SetItem(msg, name, val) == Message(Append(msg.headers, Header(name, val)), msg.body)

\* str(msg): every header, a blank line, the payload.  Folding a header
\* whose value is not a str raises AttributeError.
Serializable(msg) == \A i \in DOMAIN msg.headers : msg.headers[i].val.isStr

RECURSIVE HeaderLines(_)
HeaderLines(headers) ==
  IF headers = <<>> THEN <<>>
  ELSE <<HdrLine(Head(headers).name, Head(headers).val.first)>>
       \o Head(headers).val.rest \o HeaderLines(Tail(headers))

MessageStr(msg) == HeaderLines(msg.headers) \o <<BlankLine>> \o msg.body

\* DebianTree.__init__, "remove any hashes"
RECURSIVE ClearHashes(_, _)
ClearHashes(msg, hashes) ==
  IF hashes = <<>> THEN msg
  ELSE ClearHashes(IF Contains(msg, Head(hashes))
                   THEN SetItem(msg, Head(hashes), ListValue) ELSE msg,
                   Tail(hashes))

(***************************************************************************)
(* State.                                                                  *)
(***************************************************************************)
VARIABLES
  debs,           \* disk: the archives in deb_path (indices into Archives)
  releaseFile,    \* disk: the lines of <root>/Release
  artifacts,      \* disk: suffix -> <<content>> of <root>/Packages<suffix>, <<>> if absent
  plain,          \* disk: whether an uncompressed <root>/Packages exists
  now,            \* the clock at the latest build, in the seconds a gzip header records
  builder,        \* "none" before a DebianTree is constructed, then "fresh", and
                  \* "used" once build was called on it
  _release,       \* self._release
  _tree,          \* self._tree
  _arch,          \* self._arch
  _multiversion,  \* self._multiversion
  nBuilds,        \* calls of build so far
  nChanges,       \* changes of the archive set so far
  last,           \* record of the latest call of build
  prev,           \* record of the call of build before it
  extracted       \* what the latest extract_packages call returned

vars == <<debs, releaseFile, artifacts, plain, now, builder, _release, _tree, _arch,
          _multiversion, nBuilds, nChanges, last, prev, extracted>>

Suffixes == DOMAIN PACKAGES_COMPRESSION
NoArtifacts == [x \in Suffixes |-> <<>>]

(***************************************************************************)
(* DebianTree.build                                                        *)
(***************************************************************************)
\* (faulty variant: the check for an empty list of formats is missing)
NoFormatsUnchecked(compress_using) == FALSE

\* "if not compress_using"
NoFormats(compress_using) == compress_using = <<>>

\* the archives find_debs reads: all of them, up to the first that fails
RECURSIVE ScanReads(_)
ScanReads(order) ==
  IF order = <<>> THEN {}
  ELSE IF ~DpkgReadable(Head(order)) THEN {Head(order)}
  ELSE {Head(order)} \cup ScanReads(Tail(order))

\* hashes = {_actual(h): [""] ...}: per digest field the lines after the ""
EmptyHashes == [i \in DOMAIN HASHES |-> <<>>]

\* compute_hash(path): per hashlib name the digest of the file just written
compute_hash(content, path) ==
  [i \in DOMAIN HASHES |-> Entry(HASHES[i], content, path)]

\* the loop over compress_using; PACKAGES_COMPRESSION[format] raises
\* KeyError for a format that is no key of it
RECURSIVE CompressAll(_, _, _, _, _, _, _)
CompressAll(formats, packages_path, text, t, arts, hashes, wrote) ==
  IF formats = <<>>
  THEN [ok |-> TRUE, artifacts |-> arts, hashes |-> hashes, wrote |-> wrote]
  ELSE IF Head(formats) \notin DOMAIN PACKAGES_COMPRESSION
  THEN [ok |-> FALSE, artifacts |-> arts, hashes |-> hashes, wrote |-> wrote]
  ELSE LET path == with_suffix(packages_path, Head(formats))
           content == Compress(Head(formats), text, t)
           digests == compute_hash(content, path)
       IN CompressAll(Tail(formats), path, text, t,
                      [arts EXCEPT ![path.suffix] = <<content>>],
                      [i \in DOMAIN hashes |-> Append(hashes[i], DigLine("", digests[i]))],
                      wrote \cup {path})

\* self._release[name] = "\n".join(digests), for every digest field
RECURSIVE SetDigests(_, _, _)
SetDigests(msg, hashes, i) ==
  IF i > Len(hashes) THEN msg
  ELSE SetDigests(SetItem(msg, DigestFields[i], StrValue("", hashes[i])), hashes, i + 1)

Outcome(ok, err, text, tree, release, file, arts, reads, wrote) ==
  [ok |-> ok, err |-> err, text |-> text, tree |-> tree, release |-> release,
   file |-> file, artifacts |-> arts, reads |-> reads, wrote |-> wrote]

\* the files opened for compressed writing, the first half of the loop's
\* effects
Compressed(compress_using, text, t) ==
  CompressAll(compress_using, Path("Packages", ""), text, t, artifacts, EmptyHashes, {})

\* "with self.release_path.open(mode="w") as f: f.write(str(self._release))":
\* opening Release for writing truncates it before str(self._release) is
\* evaluated
write_release(rel, tree, text, reads, c) ==
  IF ~Serializable(rel)
  THEN Outcome(FALSE, "AttributeError", <<>>, tree, rel, <<>>, c.artifacts, reads, c.wrote)
  ELSE Outcome(TRUE, "", text, tree, rel, MessageStr(rel), c.artifacts, reads, c.wrote)

\* (faulty variant: the manifest is persisted with the digests gathered so far
\* when a format fails)
finalize_partial(c, tree, text, reads) ==
  IF ~c.ok
  THEN Outcome(FALSE, "KeyError", <<>>, tree, SetDigests(_release, c.hashes, 1),
               MessageStr(SetDigests(_release, c.hashes, 1)), c.artifacts, reads, c.wrote)
  ELSE write_release(SetDigests(_release, c.hashes, 1), tree, text, reads, c)

\* after the loop over compress_using (outcome c): an exception in the loop
\* leaves build before Release is touched; else the digest fields are set
\* and Release is written
finalize(c, tree, text, reads) ==
  IF ~c.ok
  THEN Outcome(FALSE, "KeyError", <<>>, tree, _release, releaseFile, c.artifacts,
               reads, c.wrote)
  ELSE write_release(SetDigests(_release, c.hashes, 1), tree, text, reads, c)

\* the second half of build: serialize the tree, compress and hash every
\* format, then set the digest fields and write Release
finish(compress_using, tree, text, reads, t) ==
  finalize(Compressed(compress_using, text, t), tree, text, reads)

\* What fileinfo.pop("filesize") does on an object it has already been run
\* on rests on pydpkg.Dpkg.fileinfo: a property that returns the same dict
\* again makes the pop raise KeyError, one that returns the record's
\* file data anew lets the object be serialized as before.
PopAgain == {"KeyError", "paragraph"}

\* the loop over the tree: the paragraphs of the visited objects es.  A
\* KeyError leaves the loop at the first object popped before, with the
\* objects before it popped and nothing written.
paragraphs(compress_using, tree, es, reads, t, again) ==
  IF again = "KeyError" /\ \E i \in DOMAIN es : es[i].popped
  THEN Outcome(FALSE, "KeyError", <<>>,
               Pop(tree, Take(es, FirstOrEnd({i \in DOMAIN es : es[i].popped}, 1) - 1)),
               _release, releaseFile, artifacts, reads, {})
  ELSE finish(compress_using, Pop(tree, es), AllParagraphs(es), reads, t)

\* build after find_debs returned or raised
scanned(scan, compress_using, reads, t, again) ==
  IF ~scan.ok
  THEN Outcome(FALSE, "DpkgError", <<>>, scan.tree, _release, releaseFile, artifacts,
               reads, {})
  ELSE paragraphs(compress_using, scan.tree, debinfos(scan.tree, _multiversion), reads, t,
                  again)

\* build(compress_using) with glob yielding the archives in `order`, the
\* clock showing t, and a second fileinfo.pop on one object ending as `again`
build(compress_using, order, t, again) ==
  IF NoFormats(compress_using)
  THEN Outcome(FALSE, "DebError", <<>>, _tree, _release, releaseFile, artifacts, {}, {})
  ELSE scanned(find_debs(_tree, order, _arch), compress_using, ScanReads(order), t, again)

(***************************************************************************)
(* extract_packages                                                        *)
(***************************************************************************)
\* the loop over PACKAGES_COMPRESSION returns the first file that exists,
\* decompressed and parsed; after the loop comes "return None"
RECURSIVE FirstExisting(_, _)
FirstExisting(exts, arts) ==
  IF exts = <<>> THEN [kind |-> "None", from |-> "", text |-> <<>>]
  ELSE IF arts[Head(exts)] # <<>>
       THEN [kind |-> "Message", from |-> Head(exts), text |-> arts[Head(exts)][1].text]
       ELSE FirstExisting(Tail(exts), arts)

\* the uncompressed Packages file is never looked at
extract_packages(arts, hasPlain) == FirstExisting(CompressionOrder, arts)

(***************************************************************************)
(* Initial state: a repository on disk, no builder yet.                    *)
(***************************************************************************)
\* a Release file with no digest field
PlainRelease == <<HdrLine("Origin", "x")>>

\* a Release file in the Debian layout, with digest entries of an earlier
\* Packages.bz2
OldContent == [codec |-> "bz2", text |-> <<>>, mtime |-> 0]
RECURSIVE OldDigestLines(_)
OldDigestLines(i) ==
  IF i > Len(HASHES) THEN <<>>
  ELSE <<HdrLine(DigestFields[i], ""),
         DigLine(" ", Entry(HASHES[i], OldContent, Path("Packages", BZIP2)))>>
       \o OldDigestLines(i + 1)
DebianRelease == PlainRelease \o OldDigestLines(1)

NoBuild ==
  [n |-> 0, first |-> FALSE, formats |-> <<>>, order |-> <<>>, debs |-> {},
   hadDigest |-> FALSE, ok |-> FALSE, err |-> "", text |-> <<>>, reads |-> {}, wrote |-> {},
   treeBefore |-> <<>>, treeAfter |-> <<>>, fileBefore |-> <<>>, fileAfter |-> <<>>,
   artsBefore |-> NoArtifacts, artsAfter |-> NoArtifacts, release |-> Message(<<>>, <<>>),
   multiversion |-> TRUE, arch |-> None]

InitOver(pool, releases, plains) ==
  /\ debs \in {S \in SUBSET pool : Cardinality(S) <= MaxDebs}
  /\ releaseFile \in releases
  /\ artifacts = NoArtifacts
  /\ plain \in plains
  /\ now = 0
  /\ builder = "none"
  /\ _release = Message(<<>>, <<>>)
  /\ _tree = <<>>
  /\ _arch = None
  /\ _multiversion = TRUE
  /\ nBuilds = 0
  /\ nChanges = 0
  /\ last = NoBuild
  /\ prev = NoBuild
  /\ extracted = [called |-> FALSE, compressed |-> FALSE, hadPlain |-> FALSE,
                  result |-> [kind |-> "None", from |-> "", text |-> <<>>]]

(***************************************************************************)
(* Actions.                                                                *)
(***************************************************************************)
\* DebianTree(root, deb_path, arch=arch, allow_multiversion=mv)
Construct(arch, mv) ==
  /\ builder' = "fresh"
  /\ _release' = ClearHashes(message_from_file(releaseFile), HASHES)
  /\ _arch' = arch
  /\ _multiversion' = mv
  /\ _tree' = <<>>
  /\ UNCHANGED <<debs, releaseFile, artifacts, plain, now, nBuilds, nChanges, last, prev,
                 extracted>>

\* the effects of a call of build with outcome r
Effects(r, compress_using, order) ==
  /\ _tree' = r.tree
  /\ _release' = r.release
  /\ releaseFile' = r.file
  /\ artifacts' = r.artifacts
  /\ prev' = last
  /\ last' = [n |-> nBuilds + 1, first |-> builder = "fresh",
              formats |-> compress_using, order |-> order, debs |-> debs,
              hadDigest |-> \E i \in DOMAIN DigestFields : Contains(_release, DigestFields[i]),
              ok |-> r.ok, err |-> r.err, text |-> r.text, reads |-> r.reads,
              wrote |-> r.wrote, treeBefore |-> _tree, treeAfter |-> r.tree,
              fileBefore |-> releaseFile, fileAfter |-> r.file,
              artsBefore |-> artifacts, artsAfter |-> r.artifacts, release |-> r.release,
              multiversion |-> _multiversion, arch |-> _arch]

\* tree.build(compress_using), called when the clock shows t
Build(compress_using, order, t) ==
  /\ builder # "none"
  /\ nBuilds < MaxBuilds
  /\ order \in Orders(debs)
  /\ t \in now..MaxTime
  /\ now' = t
  /\ builder' = "used"
  /\ \E again \in PopAgain : Effects(build(compress_using, order, t, again), compress_using, order)
  /\ nBuilds' = nBuilds + 1
  /\ UNCHANGED <<debs, plain, _arch, _multiversion, nChanges, extracted>>

\* an archive is put into deb_path
AddDeb(d) ==
  /\ nChanges < MaxChanges
  /\ d \notin debs
  /\ Cardinality(debs) < MaxDebs
  /\ debs' = debs \cup {d}
  /\ nChanges' = nChanges + 1
  /\ UNCHANGED <<releaseFile, artifacts, plain, now, builder, _release, _tree, _arch,
                 _multiversion, nBuilds, last, prev, extracted>>

\* an archive is removed from deb_path
RemoveDeb(d) ==
  /\ nChanges < MaxChanges
  /\ d \in debs
  /\ debs' = debs \ {d}
  /\ nChanges' = nChanges + 1
  /\ UNCHANGED <<releaseFile, artifacts, plain, now, builder, _release, _tree, _arch,
                 _multiversion, nBuilds, last, prev, extracted>>

\* extract_packages(root)
ExtractPackages ==
  /\ extracted' = [called |-> TRUE,
                   compressed |-> \E x \in Suffixes : artifacts[x] # <<>>,
                   hadPlain |-> plain,
                   result |-> extract_packages(artifacts, plain)]
  /\ UNCHANGED <<debs, releaseFile, artifacts, plain, now, builder, _release, _tree, _arch,
                 _multiversion, nBuilds, nChanges, last, prev>>

(***************************************************************************)
(* Specifications.                                                         *)
(***************************************************************************)
\* Spec: the manifest pipeline, over one well-formed archive.  The
\* compress_using arguments tried: none, one, several in an order that is
\* not the codec table's, one unknown after a known one.  Between two builds
\* the clock stands still or moves on by a second.
ZSTD == ".zst"
FormatLists == { <<>>, <<GZIP>>, <<XZ, GZIP>>, <<GZIP, ZSTD>> }

Init == InitOver({1}, {PlainRelease, DebianRelease}, {FALSE})

Next ==
  \/ Construct(None, TRUE)
  \/ \E fs \in FormatLists, order \in Orders(debs), t \in {now, now + 1} : Build(fs, order, t)

Spec == Init /\ [][Next]_vars

\* SpecScan: the scan, over a well-formed archive, one without a Version
\* field and an unreadable one, with and without an architecture filter.
ScanPool == {1, 10, 11}

InitScan == InitOver(ScanPool, {PlainRelease}, {FALSE})

NextScan ==
  \/ \E arch \in ArchFilters : Construct(arch, TRUE)
  \/ \E fs \in {<<>>, <<GZIP>>}, order \in Orders(debs) : Build(fs, order, now)

SpecScan == InitScan /\ [][NextScan]_vars

\* SpecTree: the tree and the order of the index, over all the well-formed
\* archives, with the archive set changing between builds.
TreePool == {d \in DebIds : DpkgReadable(d)}

InitTree == InitOver(TreePool, {PlainRelease}, {FALSE})

NextTree ==
  \/ \E arch \in ArchFilters, mv \in BOOLEAN : Construct(arch, mv)
  \/ \E order \in Orders(debs) : Build(<<GZIP>>, order, now)
  \/ \E d \in TreePool : AddDeb(d)
  \/ \E d \in TreePool : RemoveDeb(d)

SpecTree == InitTree /\ [][NextTree]_vars

\* SpecVersions: the selection of versions, over archives whose versions
\* and architectures hold no "/".
VersionPool == {d \in TreePool : Count(TreeKey(Archives[d].Version, Archives[d].Architecture), "/") = 1}

InitVersions == InitOver(VersionPool, {PlainRelease}, {FALSE})

NextVersions ==
  \/ \E arch \in ArchFilters, mv \in BOOLEAN : Construct(arch, mv)
  \/ \E order \in Orders(debs) : Build(<<GZIP>>, order, now)
  \/ \E d \in VersionPool : AddDeb(d)
  \/ \E d \in VersionPool : RemoveDeb(d)

SpecVersions == InitVersions /\ [][NextVersions]_vars

\* SpecExtract: extract_packages over the artifacts builds leave behind.
InitExtract == InitOver({1}, {PlainRelease}, BOOLEAN)

NextExtract ==
  \/ Construct(None, TRUE)
  \/ \E fs \in {<<GZIP>>, <<BZIP2>>, <<XZ, GZIP>>}, order \in Orders(debs) :
       Build(fs, order, now)
  \/ ExtractPackages

SpecExtract == InitExtract /\ [][NextExtract]_vars

(***************************************************************************)
(* Properties.                                                             *)
(***************************************************************************)
\* the headers of a message that bear exactly this name
HeadersNamed(msg, name) == SelectSeq(msg.headers, LAMBDA h : h.name = name)

\* the digest lines of a Release text that stand under a header line of
\* this name (the lines after it, up to the next line that is no digest line)
RECURSIVE FieldEntries(_, _, _)
FieldEntries(file, name, under) ==
  IF file = <<>> THEN <<>>
  ELSE LET l == Head(file) IN
       IF l.t = "hdr" THEN FieldEntries(Tail(file), name, l.name = name)
       ELSE IF l.t = "dig"
       THEN (IF under THEN <<l.e[1]>> ELSE <<>>) \o FieldEntries(Tail(file), name, under)
       ELSE FieldEntries(Tail(file), name, FALSE)

\* every digest line of a Release text, wherever it stands
DigestEntries(file) ==
  LET ls == SelectSeq(file, LAMBDA l : l.t = "dig") IN [i \in DOMAIN ls |-> ls[i].e[1]]

Built == last.n > 0

\* C1: after a successful build(formats) on a builder whose manifest had no
\* digest field, each of MD5Sum, SHA1, SHA256, SHA512 is set once, holds one
\* entry per requested format in request order, the i-th naming
\* Packages<i-th format>; the Release file written lists the same entries
\* under the field's name.
C1_DigestEntriesPerFormat ==
  (Built /\ last.ok /\ ~last.hadDigest) =>
    \A k \in DOMAIN DigestFields :
      LET hs == HeadersNamed(last.release, DigestFields[k])
          es == FieldEntries(last.fileAfter, DigestFields[k], FALSE)
      IN /\ Len(hs) = 1
         /\ hs[1].val.isStr
         /\ hs[1].val.first = ""
         /\ Len(hs[1].val.rest) = Len(last.formats)
         /\ \A i \in DOMAIN last.formats :
              /\ hs[1].val.rest[i].t = "dig"
              /\ hs[1].val.rest[i].e[1].hash = HASHES[k]
              /\ hs[1].val.rest[i].e[1].file = Path("Packages", last.formats[i])
         /\ es = [i \in DOMAIN hs[1].val.rest |-> hs[1].val.rest[i].e[1]]

C1_Witness ==
  Built /\ last.ok /\ ~last.hadDigest /\ last.formats = <<XZ, GZIP>>

\* C2: two consecutive successful build([GZIP]) on the same archive set
\* leave MD5Sum with exactly one digest line, the same after both, and the
\* same Packages.gz content.
C2_TwoBuildsIdentical ==
  (prev.n > 0 /\ prev.ok /\ last.ok /\ prev.formats = <<GZIP>> /\ last.formats = <<GZIP>>
     /\ prev.debs = last.debs /\ last.debs # {}) =>
    /\ Len(FieldEntries(last.fileAfter, "MD5Sum", FALSE)) = 1
    /\ FieldEntries(last.fileAfter, "MD5Sum", FALSE)
         = FieldEntries(prev.fileAfter, "MD5Sum", FALSE)
    /\ last.artsAfter[GZIP] = prev.artsAfter[GZIP]

\* C3: constructing a builder over a Release file that holds digest entries
\* empties the four digest fields, so the Release file persisted by the
\* builder's first successful build holds no digest entry but those of the
\* formats that build was asked for.
C3_NoStaleDigests ==
  (Built /\ last.ok /\ last.first) =>
    \A i \in DOMAIN DigestEntries(last.fileAfter) :
      \E j \in DOMAIN last.formats :
        DigestEntries(last.fileAfter)[i].file = Path("Packages", last.formats[j])

\* C6: build([]) fails with the configuration error before any scan or
\* I/O: no archive is read, the tree is unchanged, no artifact and no
\* manifest is written.
C6_EmptyFormatsFailFirst ==
  (Built /\ last.formats = <<>>) =>
    /\ ~last.ok
    /\ last.err = "DebError"
    /\ last.reads = {}
    /\ last.wrote = {}
    /\ last.treeAfter = last.treeBefore
    /\ last.artsAfter = last.artsBefore
    /\ last.fileAfter = last.fileBefore

C6_Witness == Built /\ last.formats = <<>> /\ last.debs # {} /\ last.err = "DebError"

\* C7: if an archive found by the scan is unreadable or lacks a required
\* field, the build fails and writes no compressed index artifact, wherever
\* that archive comes in the scan order.
C7_BadArchiveFailsBuild ==
  (Built /\ last.formats # <<>> /\ \E d \in last.debs : ~DpkgReadable(d)) =>
    /\ ~last.ok
    /\ last.wrote = {}
    /\ last.artsAfter = last.artsBefore

C7_Witness ==
  /\ Built /\ last.formats = <<GZIP>> /\ Len(last.order) = 2
  /\ DpkgReadable(last.order[1]) /\ ~DpkgReadable(last.order[2])
  /\ last.err = "DpkgError"

\* C8: if compressing fails for a requested format (the i-th of several is
\* unknown), the Release file on disk is left as it was: it is written only
\* after every requested format was compressed and hashed.
C8_NoPartialManifest ==
  (Built /\ last.err = "KeyError") =>
    last.fileAfter = last.fileBefore

C8_Witness ==
  Built /\ last.err = "KeyError" /\ last.formats = <<GZIP, ZSTD>> /\ last.wrote # {}

\* the index of the first paragraph of text that bears this package name
FirstOf(text, name) ==
  CHOOSE i \in DOMAIN text :
    text[i].Package = name /\ \A j \in 1..(i - 1) : text[j].Package # name

\* C4: the records selected with allow_multiversion=False are among those
\* selected with allow_multiversion=True, and each has the version string of
\* the first (latest) record of its name in the descending order; no older
\* version is selected.
SelectedFrom(all, text) ==
  \A i \in DOMAIN text :
    /\ \E j \in DOMAIN all : all[j] = text[i]
    /\ text[i].Version = all[FirstOf(all, text[i].Package)].Version

C9_FallbackOrNotFound ==
  (extracted.called /\ ~extracted.compressed) =>
    IF extracted.hadPlain
    THEN extracted.result.kind = "Message" /\ extracted.result.from = "Packages"
    ELSE extracted.result.kind = "FileNotFoundError"

\* the archives a scan in this order puts into the tree
Inserted(order, arch) ==
  {i \in DOMAIN order : arch = None \/ Archives[order[i]].Architecture = arch}

SamePair(d, e) ==
  /\ Archives[d].Package = Archives[e].Package
  /\ Archives[d].Version = Archives[e].Version
  /\ Archives[d].Architecture = Archives[e].Architecture

\* C10: after the insertions of a scan into an empty tree, a record is kept
\* unless a record scanned later has the same name and the identical
\* (version, architecture) pair, also when a version or an architecture
\* holds a "/"; of the records of an identical pair the last scanned is kept.
C10_KeyedByPair ==
  (Built /\ last.ok /\ last.treeBefore = <<>>) =>
    \A i \in Inserted(last.order, last.arch) :
      (\E k \in DOMAIN last.treeAfter : last.treeAfter[k].deb = last.order[i])
        <=> ~\E j \in Inserted(last.order, last.arch) :
               j > i /\ SamePair(last.order[i], last.order[j])

\* C11: records are discarded once serialized.  When build is called again
\* on the same builder after archives were removed from the package
\* directory (all archives readable, a supported format), the call yields
\* an index, and every paragraph of it is of an archive the second scan
\* found and inserted; none is of a record kept from the first build.
FoundByScan(order, arch, text) ==
  \A i \in DOMAIN text :
    \E j \in Inserted(order, arch) : text[i].Filename = Archives[order[j]].file

C11_KeptRecordsDiscarded ==
  (/\ Built /\ ~last.first /\ prev.ok
   /\ last.formats = <<GZIP>>
   /\ last.debs \subseteq prev.debs /\ last.debs # prev.debs
   /\ \A d \in last.debs : DpkgReadable(d)) =>
    /\ last.ok
    /\ FoundByScan(last.order, last.arch, last.text)

====
